---- MODULE Spec2Model ----
(***************************************************************************)
(* Model of the usage acquisition and alerting engine of claude-usage:     *)
(*   NotificationService (threshold alerts), UsageService (poller and      *)
(*   parser), AuthService (session validation) and the parts of            *)
(*   SecureStore they persist to.                                          *)
(* Time is counted in hours for the alert engine (the cooldown of          *)
(* 4*60*60*1000 ms is 4 units).                                            *)
(***************************************************************************)
EXTENDS Integers, Sequences, FiniteSets, TLC

\* ------------------------------------------------------------------ bounds
MaxTime == 4
MaxCycles == 2
MaxTimers == 2
MaxChecks == 2

\* ------------------------------------------------------- program constants
NOTIFICATION_COOLDOWN_H == 4
HYSTERESIS == 5
DEFAULT_POLL_MS == 60000
ACTIVE_POLL_MS == 30000
MAX_RETRIES == 3
maxRetries == 3
HIGH_WATER == 80
BACKOFF_BASE_MS == 1000

Null == "null"
NoTime == -1

\* settings.thresholds (DEFAULT_THRESHOLDS)
DEFAULT_THRESHOLDS ==
  << [id |-> "session-50", type |-> "session", percentage |-> 50, enabled |-> TRUE,  soundEnabled |-> FALSE],
     [id |-> "session-75", type |-> "session", percentage |-> 75, enabled |-> TRUE,  soundEnabled |-> TRUE],
     [id |-> "session-90", type |-> "session", percentage |-> 90, enabled |-> TRUE,  soundEnabled |-> TRUE],
     [id |-> "weekly-50",  type |-> "weekly",  percentage |-> 50, enabled |-> FALSE, soundEnabled |-> FALSE],
     [id |-> "weekly-75",  type |-> "weekly",  percentage |-> 75, enabled |-> TRUE,  soundEnabled |-> FALSE],
     [id |-> "weekly-90",  type |-> "weekly",  percentage |-> 90, enabled |-> TRUE,  soundEnabled |-> TRUE] >>

UsageTypes == {"session", "weekly"}

\* `${threshold.type}-${threshold.percentage}`
AlertKey(threshold) == <<threshold.type, threshold.percentage>>

AllKeys == {AlertKey(DEFAULT_THRESHOLDS[i]) : i \in 1..Len(DEFAULT_THRESHOLDS)}

\* the threshold list after the user has switched thresholds on and off in
\* the settings page: the default list with exactly the keys of E enabled
WithEnabled(E) ==
  [i \in 1..Len(DEFAULT_THRESHOLDS) |->
     [DEFAULT_THRESHOLDS[i] EXCEPT !.enabled = (AlertKey(DEFAULT_THRESHOLDS[i]) \in E)]]

\* the settings the alert engine is run with
EnabledChoices ==
  { {<<"session", 50>>, <<"session", 75>>, <<"session", 90>>},
    {<<"session", 75>>, <<"weekly", 75>>} }
SeqEnabledChoices == { {<<"session", 50>>, <<"session", 75>>} }

EnabledKeysOf(ths) == {AlertKey(ths[i]) : i \in {j \in 1..Len(ths) : ths[j].enabled}}
ThresholdOf(ths, key) == ths[CHOOSE i \in 1..Len(ths) : AlertKey(ths[i]) = key]

\* key.startsWith(type)
KeyStartsWith(key, type) == key[1] = type

\* inputs of the alert engine
SessionPercents == {45, 72, 76, 80, 95}
WeeklyPercents == {10, 80}
ResetAts == {"r1", "r2"}
UsageSnapshots ==
  [sessionUsage : [percentUsed : SessionPercents, resetAt : ResetAts],
   weeklyUsage  : [percentUsed : WeeklyPercents,  resetAt : ResetAts]]
NoUsage == [sessionUsage |-> [percentUsed |-> -1, resetAt |-> Null],
            weeklyUsage |-> [percentUsed |-> -1, resetAt |-> Null]]
\* the snapshots the engine is run on under the threshold list ths: the
\* weekly window does not move when no weekly threshold is enabled
QuietWindow == [percentUsed |-> 10, resetAt |-> "r1"]
SnapshotsFor(ths) ==
  {u \in UsageSnapshots :
     (\A i \in 1..Len(ths) : ths[i].type = "weekly" => ~ths[i].enabled)
        => u.weeklyUsage = QuietWindow}

VARIABLES
  \* settings.thresholds
  thresholds,
  \* NotificationService (in memory)
  triggeredAlerts, lastSessionResetAt, lastWeeklyResetAt,
  \* SecureStore notifications.*
  storeTriggeredAlerts, storeLastNotificationTimes,
  storeLastSessionResetAt, storeLastWeeklyResetAt,
  \* clock (hours)
  now,
  \* observers of the last step of the alert engine: the operation, the keys
  \* it fired, the usage types it saw roll over, the keys it cleared by
  \* rollover, the snapshot it evaluated, whether that snapshot repeats the
  \* snapshot of the previous call
  op, firedNow, rolledNow, clearedNow, checkedNow, repeatNow,
  \* observers of the history: the time of the latest firing of each key,
  \* the snapshot of the latest call, the progress of the hysteresis scenario
  firedAt, lastChecked, scen,
  \* observers of call sequences: the keys the step cleared by hysteresis,
  \* the keys it fired that had fired before
  droppedNow, refiredNow

alertVars == <<thresholds, triggeredAlerts, lastSessionResetAt, lastWeeklyResetAt,
               storeTriggeredAlerts, storeLastNotificationTimes,
               storeLastSessionResetAt, storeLastWeeklyResetAt,
               now, op, firedNow, rolledNow, clearedNow, checkedNow, repeatNow,
               firedAt, lastChecked, scen, droppedNow, refiredNow>>

VARIABLES
  \* SecureStore auth.sessionKey, settings.pollIntervalMs, cache.lastUsage
  sessionKey, pollIntervalMs, cachedUsage,
  \* UsageService: the interval of the timer this.pollInterval refers to
  \* (0: null), the running flag, the last snapshot (its session
  \* percentage), the calls of fetchUsage that are under way or have ended
  pollInterval, isPolling, lastUsage, cycles,
  \* the number of setInterval timers that were set and not cleared
  liveTimers,
  \* whether the cycles under way at a stopPolling() are marked
  observeStops,
  \* observers of the last step of the poller: the operation, the cycle that
  \* acted (0: none), how that cycle ended in the step ("none": it did not
  \* end), the events the step emitted, the answer a request got in the
  \* step, the snapshot (its session percentage) the step's usage:updated
  \* carried
  pollOp, stepCycle, stepOutcome, emitted, stepAnswer, published

pollVars == <<sessionKey, pollIntervalMs, cachedUsage, pollInterval, liveTimers, isPolling,
              lastUsage, cycles, pollOp, stepCycle, stepOutcome, emitted,
              stepAnswer, published, observeStops>>

VARIABLES
  \* AuthService.checkSession: where the call is suspended, the attempt of
  \* its for loop, the key it read at its start, its return value
  checkPc, attempt, checkKey, checkResult,
  \* observers of the call: the statuses its probes were answered with, the
  \* number of probes it sent, the events it emitted
  probeLog, probes, authEmitted

authVars == <<checkPc, attempt, checkKey, checkResult, probeLog, probes, authEmitted>>

VARIABLES
  \* parseUsageResponse: its arguments and the snapshot it returned
  bootstrapData, rateLimitData, parsed

parseVars == <<bootstrapData, rateLimitData, parsed>>

VARIABLES
  \* AuthService.loginWindow (null or the open window), whether close() was
  \* called on the window and its 'closed' event is still to come
  loginWindow, windowClosing,
  \* login(): the flag resolved of the attempt, where each callback of
  \* checkLoginSuccess is suspended, how the promise was resolved
  resolved, checks, loginResult,
  \* the sessionKey cookie of the auth session
  authCookie,
  \* observers of the attempt: the calls of store.setSessionKey, the
  \* auth:success events, the last step, what the last cookie read returned,
  \* the url of the navigation if the last step was one
  stores, successes, loginOp, captured, navigated

loginVars == <<loginWindow, windowClosing, resolved, checks, loginResult, authCookie,
               stores, successes, loginOp, captured, navigated>>

VARIABLES
  \* the credential lifecycle: the component whose steps are interleaved
  \* with logins and logouts, and the component that took the last step
  credPart, credStep,
  \* registerIPCHandlers: where the auth:login or auth:logout handler is
  \* suspended, and the call of fetchUsage() it awaits (0: none)
  handler

credVars == <<credPart, credStep, handler>>

vars == <<alertVars, pollVars, authVars, parseVars, loginVars, credVars>>

\* ------------------------------------------------------------ SecureStore
\* getLastNotificationTime: times[alertKey] || null
getLastNotificationTime(times, alertKey) == times[alertKey]

\* clearNotificationsForType: triggered alerts without the keys of the type
clearNotificationsForType(alerts, type) == {k \in alerts : ~KeyStartsWith(k, type)}

\* ---------------------------------------------------- NotificationService
\* isWithinCooldown as it would be without the persisted cooldown
isWithinCooldown_none(times, alertKey, t) == FALSE

\* isWithinCooldown as it would be if a cooldown never ended
isWithinCooldown_forever(times, alertKey, t) ==
  getLastNotificationTime(times, alertKey) # NoTime

\* (now - lastTimestamp) < NOTIFICATION_COOLDOWN_MS
isWithinCooldown(times, alertKey, t) ==
  LET lastTime == getLastNotificationTime(times, alertKey) IN
  IF lastTime = NoTime THEN FALSE
  ELSE (t - lastTime) < NOTIFICATION_COOLDOWN_H

\* resetAlerts deleting the keys of every type
resetAlerts_everyType(st, type) ==
  [st EXCEPT !.trig = {},
             !.storeTrig = {},
             !.cleared = @ \cup st.trig]

\* resetAlerts deleting the keys of the other type
resetAlerts_otherType(st, type) ==
  LET kept == {k \in st.trig : KeyStartsWith(k, type)} IN
  [st EXCEPT !.trig = kept,
             !.storeTrig = kept,
             !.cleared = @ \cup (st.trig \ kept)]

\* resetAlerts(type): delete the keys of the type, persist, clear in store
resetAlerts(st, type) ==
  LET kept == {k \in st.trig : ~KeyStartsWith(k, type)} IN
  [st EXCEPT !.trig = kept,
             !.storeTrig = clearNotificationsForType(kept, type),
             !.cleared = @ \cup (st.trig \ kept)]

\* the rollover test that takes every snapshot for a new window
resetDetected_always(last, resetAt) == last # Null

\* the rollover test of one usage type: last && resetAt !== last
resetDetected(last, resetAt) == last # Null /\ resetAt # last

\* checkForUsageReset(usage) on st = [trig, storeTrig, lastS, lastW, storeS, storeW]
checkForUsageReset(st, usage) ==
  LET sChanged == resetDetected(st.lastS, usage.sessionUsage.resetAt)
      st1 == IF sChanged THEN resetAlerts(st, "session") ELSE st
      st2 == [st1 EXCEPT !.lastS = usage.sessionUsage.resetAt]
      wChanged == resetDetected(st2.lastW, usage.weeklyUsage.resetAt)
      st3 == IF wChanged THEN resetAlerts(st2, "weekly") ELSE st2
      st4 == [st3 EXCEPT !.lastW = usage.weeklyUsage.resetAt]
  IN IF sChanged \/ wChanged
       THEN [st4 EXCEPT !.storeS = st4.lastS, !.storeW = st4.lastW,
                        !.rolled = {ty \in UsageTypes : (ty = "session" /\ sChanged) \/ (ty = "weekly" /\ wChanged)}]
       ELSE st4

\* the firing test that skips a threshold when the next step of the ladder
\* (25 points higher) is crossed as well
shouldFire_highestOnly(currentPercent, threshold, trig, times, t) ==
  /\ currentPercent >= threshold.percentage
  /\ currentPercent < threshold.percentage + 25
  /\ AlertKey(threshold) \notin trig
  /\ ~isWithinCooldown(times, AlertKey(threshold), t)

\* the firing test of one threshold
shouldFire(currentPercent, threshold, trig, times, t) ==
  /\ currentPercent >= threshold.percentage
  /\ AlertKey(threshold) \notin trig
  /\ ~isWithinCooldown(times, AlertKey(threshold), t)

\* the hysteresis test that clears at the margin as well
shouldClear_inclusive(currentPercent, threshold) ==
  currentPercent <= threshold.percentage - HYSTERESIS

\* the hysteresis test without the margin
shouldClear_noMargin(currentPercent, threshold) ==
  currentPercent < threshold.percentage

\* the hysteresis test of one threshold
shouldClear(currentPercent, threshold) ==
  currentPercent < threshold.percentage - HYSTERESIS

\* the body of the for loop of checkThresholds, thresholds i..Len
RECURSIVE checkLoop(_, _, _, _, _)
checkLoop(ths, i, st, usage, t) ==
  IF i > Len(ths) THEN st
  ELSE
    LET threshold == ths[i] IN
    IF ~threshold.enabled THEN checkLoop(ths, i + 1, st, usage, t)
    ELSE
      LET currentPercent == IF threshold.type = "session"
                              THEN usage.sessionUsage.percentUsed
                              ELSE usage.weeklyUsage.percentUsed
          alertKey == AlertKey(threshold)
          st1 == IF shouldFire(currentPercent, threshold, st.trig, st.times, t)
                   THEN [st EXCEPT !.trig = @ \cup {alertKey},
                                   !.storeTrig = st.trig \cup {alertKey},
                                   !.times[alertKey] = t,
                                   !.fired = @ \cup {alertKey},
                                   !.refired = IF st.times[alertKey] # NoTime
                                                 THEN @ \cup {alertKey} ELSE @]
                   ELSE st
          st2 == IF shouldClear(currentPercent, threshold) /\ alertKey \in st1.trig
                   THEN [st1 EXCEPT !.trig = @ \ {alertKey},
                                    !.storeTrig = st1.trig \ {alertKey},
                                    !.dropped = @ \cup {alertKey}]
                   ELSE st1
      IN checkLoop(ths, i + 1, st2, usage, t)

\* checkThresholds(usage) on the whole alert state
checkThresholds(ths, st, usage, t) ==
  checkLoop(ths, 1, checkForUsageReset(st, usage), usage, t)

AlertSt == [trig |-> triggeredAlerts, storeTrig |-> storeTriggeredAlerts,
            times |-> storeLastNotificationTimes,
            lastS |-> lastSessionResetAt, lastW |-> lastWeeklyResetAt,
            storeS |-> storeLastSessionResetAt, storeW |-> storeLastWeeklyResetAt,
            fired |-> {}, rolled |-> {}, cleared |-> {},
            dropped |-> {}, refired |-> {}, threw |-> FALSE]

\* the key of the hysteresis scenario 80 -> 72 -> 80
ScenKey == <<"session", 75>>

\* observer of the scenario: 1 after a call at 80 that fired session-75,
\* 2 after a following call at 72 without session rollover, 3 after a
\* following call at 80 without session rollover
ScenNext(s, usage, res) ==
  LET sp == usage.sessionUsage.percentUsed
      noRoll == "session" \notin res.rolled
  IN IF s = 2 /\ sp = 80 /\ noRoll THEN 3
     ELSE IF s = 1 /\ sp = 72 /\ noRoll THEN 2
     ELSE IF sp = 80 /\ ScenKey \in res.fired THEN 1
     ELSE 0

AlertInitWith(choices) ==
  /\ thresholds \in {WithEnabled(E) : E \in choices}
  /\ triggeredAlerts = {}
  /\ lastSessionResetAt = Null
  /\ lastWeeklyResetAt = Null
  /\ storeTriggeredAlerts = {}
  /\ storeLastNotificationTimes = [k \in AllKeys |-> NoTime]
  /\ storeLastSessionResetAt = Null
  /\ storeLastWeeklyResetAt = Null
  /\ now = 0
  /\ op = "init"
  /\ firedNow = {}
  /\ rolledNow = {}
  /\ clearedNow = {}
  /\ checkedNow = NoUsage
  /\ repeatNow = FALSE
  /\ firedAt = [k \in AllKeys |-> NoTime]
  /\ lastChecked = NoUsage
  /\ scen = 0
  /\ droppedNow = {}
  /\ refiredNow = {}

\* a step that is no evaluation leaves nothing in the observers of the step
NoStepObs ==
  /\ firedNow' = {}
  /\ rolledNow' = {}
  /\ clearedNow' = {}
  /\ checkedNow' = NoUsage
  /\ repeatNow' = FALSE
  /\ droppedNow' = {}
  /\ refiredNow' = {}

\* usageService.on('usage:updated') -> notificationService.checkThresholds(usage);
\* observe says whether the observers of call sequences are kept
CheckThresholdsOn(observe) ==
  \E usage \in SnapshotsFor(thresholds) :
    \E res \in {checkThresholds(thresholds, AlertSt, usage, now)} :
      /\ triggeredAlerts' = res.trig
      /\ storeTriggeredAlerts' = res.storeTrig
      /\ storeLastNotificationTimes' = res.times
      /\ lastSessionResetAt' = res.lastS
      /\ lastWeeklyResetAt' = res.lastW
      /\ storeLastSessionResetAt' = res.storeS
      /\ storeLastWeeklyResetAt' = res.storeW
      /\ firedNow' = res.fired
      /\ rolledNow' = res.rolled
      /\ clearedNow' = res.cleared
      /\ checkedNow' = usage
      /\ repeatNow' = (observe /\ lastChecked = usage)
      /\ firedAt' = [k \in AllKeys |-> IF k \in res.fired THEN now ELSE firedAt[k]]
      /\ lastChecked' = IF observe THEN usage ELSE lastChecked
      /\ scen' = IF observe THEN ScenNext(scen, usage, res) ELSE scen
      /\ droppedNow' = IF observe THEN res.dropped ELSE {}
      /\ refiredNow' = IF observe THEN res.refired ELSE {}
      /\ op' = "check"
      /\ UNCHANGED <<thresholds, now>>

CheckThresholds == CheckThresholdsOn(FALSE)
CheckThresholdsSeq == CheckThresholdsOn(TRUE)

\* clearAllAlerts() (logout)
ClearAllAlerts ==
  /\ triggeredAlerts' = {}
  /\ lastSessionResetAt' = Null
  /\ lastWeeklyResetAt' = Null
  /\ storeTriggeredAlerts' = {}
  /\ storeLastSessionResetAt' = Null
  /\ storeLastWeeklyResetAt' = Null
  /\ NoStepObs
  /\ lastChecked' = NoUsage
  /\ scen' = 0
  /\ op' = "clear"
  /\ UNCHANGED <<thresholds, storeLastNotificationTimes, now, firedAt>>

\* process restart: the constructor restores the persisted state
Restart ==
  /\ triggeredAlerts' = storeTriggeredAlerts
  /\ lastSessionResetAt' = storeLastSessionResetAt
  /\ lastWeeklyResetAt' = storeLastWeeklyResetAt
  /\ NoStepObs
  /\ lastChecked' = NoUsage
  /\ scen' = 0
  /\ op' = "restart"
  /\ UNCHANGED <<thresholds, storeTriggeredAlerts, storeLastNotificationTimes,
                 storeLastSessionResetAt, storeLastWeeklyResetAt, now, firedAt>>

\* the wall clock advances by one hour
Tick ==
  /\ now < MaxTime
  /\ now' = now + 1
  /\ op' = "tick"
  /\ NoStepObs
  /\ UNCHANGED <<firedAt, thresholds, triggeredAlerts, lastSessionResetAt, lastWeeklyResetAt,
                 storeTriggeredAlerts, storeLastNotificationTimes,
                 storeLastSessionResetAt, storeLastWeeklyResetAt,
                 lastChecked, scen>>


\* ============================================================ UsageService
Cycles == 1..MaxCycles
NoPercent == -1
\* the session percentages upstream reports
PollPercents == {0, 80, 90}
\* cache.lastUsage when the application starts: empty, or the snapshot an
\* earlier run stored
CachedAtStart == {NoPercent, 90}
\* the values of settings.pollIntervalMs (0: unset)
PollSettings == {0, 20000}
\* the answers to the bootstrap request: 2xx with and without organization,
\* 401, another failure status, a network error
BootstrapAnswers == {"ok", "noorg", "401", "500", "neterr"}
\* the answers to the usage request
UsageAnswers == {"ok", "401", "500", "neterr"}

\* a call of fetchUsage: where it is suspended, its retries, the delay of
\* its last backoff, whether stopPolling() ran while it was under way; the
\* slot of a call that has returned is idle again
IdleCycle == [pc |-> "idle", retries |-> 0, delay |-> 0, stopped |-> FALSE]
InFlightPcs == {"bootstrap", "usage", "backoff"}
RequestPcs == {"bootstrap", "usage"}
InFlight(cs) == {c \in Cycles : cs[c].pc \in InFlightPcs}
Requesting(cs) == {c \in Cycles : cs[c].pc \in RequestPcs}
FreeSlots(cs) == {c \in Cycles : cs[c].pc \notin InFlightPcs}

Min(a, b) == IF a < b THEN a ELSE b
RECURSIVE Pow2(_)
Pow2(n) == IF n = 0 THEN 1 ELSE 2 * Pow2(n - 1)

\* getPollInterval() lowering the interval from 80% on
getPollInterval_fromMark(setting, last) ==
  LET baseInterval == IF setting # 0 THEN setting ELSE DEFAULT_POLL_MS IN
  IF last # NoPercent /\ last # 0 /\ last >= HIGH_WATER
    THEN Min(baseInterval, ACTIVE_POLL_MS)
    ELSE baseInterval

\* getPollInterval(): settings.pollIntervalMs || DEFAULT_POLL_MS, lowered to
\* ACTIVE_POLL_MS when the last session percentage is above 80
getPollInterval(setting, last) ==
  LET baseInterval == IF setting # 0 THEN setting ELSE DEFAULT_POLL_MS IN
  IF last # NoPercent /\ last # 0 /\ last > HIGH_WATER
    THEN Min(baseInterval, ACTIVE_POLL_MS)
    ELSE baseInterval

\* updatePollInterval(): rearm the timer if one is armed and polling is on
updatePollInterval(timer, polling, setting, last) ==
  IF timer = 0 \/ ~polling THEN timer ELSE getPollInterval(setting, last)

PollInitObserving(observe) ==
  /\ sessionKey \in {Null, "k1"}
  /\ pollIntervalMs \in PollSettings
  /\ cachedUsage \in CachedAtStart
  /\ pollInterval = 0
  /\ liveTimers = 0
  /\ isPolling = FALSE
  /\ lastUsage = NoPercent
  /\ cycles = [c \in Cycles |-> IdleCycle]
  /\ pollOp = "init"
  /\ stepCycle = 0
  /\ stepOutcome = "none"
  /\ emitted = <<>>
  /\ stepAnswer = "none"
  /\ published = NoPercent
  /\ observeStops = observe

PollInit == PollInitObserving(FALSE)

\* fetchUsage() that skips its test of the stored session key
beginCycle_unguarded(cs, c) == [cs EXCEPT ![c] = [IdleCycle EXCEPT !.pc = "bootstrap"]]

\* fetchUsage() up to its first await, in slot c: without credential it
\* emits usage:error and returns, else it sends the bootstrap request
beginCycle(cs, c) ==
  IF sessionKey = Null
    THEN cs
    ELSE [cs EXCEPT ![c] = [IdleCycle EXCEPT !.pc = "bootstrap"]]
beginEvents == IF sessionKey = Null THEN <<"usage:error">> ELSE <<>>
beginOutcome == IF sessionKey = Null THEN "nocred" ELSE "none"
NextSlot(cs) == CHOOSE c \in FreeSlots(cs) : \A d \in FreeSlots(cs) : c <= d

\* startPolling() without its test of the running flag
alreadyPolling_ignored(polling) == FALSE

\* if (this.isPolling) return
alreadyPolling(polling) == polling

\* startPolling()
StartPolling ==
  /\ liveTimers < MaxTimers
  /\ pollOp' = "start"
  /\ stepAnswer' = "none"
  /\ published' = NoPercent
  /\ IF alreadyPolling(isPolling)
       THEN /\ stepCycle' = 0
            /\ stepOutcome' = "none"
            /\ emitted' = <<>>
            /\ UNCHANGED <<isPolling, cycles, pollInterval, liveTimers>>
       ELSE /\ FreeSlots(cycles) # {}
            /\ isPolling' = TRUE
            /\ cycles' = beginCycle(cycles, NextSlot(cycles))
            /\ stepCycle' = NextSlot(cycles)
            /\ stepOutcome' = beginOutcome
            /\ emitted' = beginEvents
            /\ pollInterval' = getPollInterval(pollIntervalMs, lastUsage)
            /\ liveTimers' = liveTimers + 1
  /\ UNCHANGED <<sessionKey, pollIntervalMs, cachedUsage, lastUsage>>

\* stopPolling() on the timer and the flag; marks the cycles under way
stopTimer == 0
\* stopPolling() that drops the handle without clearInterval
clearTimer_leaking(timer, live) == live

\* if (this.pollInterval) clearInterval(this.pollInterval)
clearTimer(timer, live) == IF timer # 0 THEN live - 1 ELSE live
markStopped(cs) == [c \in Cycles |-> IF observeStops /\ cs[c].pc \in InFlightPcs
                                       THEN [cs[c] EXCEPT !.stopped = TRUE]
                                       ELSE cs[c]]
StopPolling ==
  /\ pollOp' = "stop"
  /\ stepAnswer' = "none"
  /\ published' = NoPercent
  /\ pollInterval' = stopTimer
  /\ liveTimers' = clearTimer(pollInterval, liveTimers)
  /\ isPolling' = FALSE
  /\ cycles' = markStopped(cycles)
  /\ stepCycle' = 0
  /\ stepOutcome' = "none"
  /\ emitted' = <<>>
  /\ UNCHANGED <<sessionKey, pollIntervalMs, cachedUsage, lastUsage>>

\* the setInterval callback: fetchUsage()
TimerTick ==
  /\ liveTimers > 0
  /\ FreeSlots(cycles) # {}
  /\ pollOp' = "timer"
  /\ stepAnswer' = "none"
  /\ published' = NoPercent
  /\ cycles' = beginCycle(cycles, NextSlot(cycles))
  /\ stepCycle' = NextSlot(cycles)
  /\ stepOutcome' = beginOutcome
  /\ emitted' = beginEvents
  /\ UNCHANGED <<sessionKey, pollIntervalMs, cachedUsage, lastUsage,
                 pollInterval, liveTimers, isPolling>>

\* refresh(): fetchUsage()
Refresh ==
  /\ FreeSlots(cycles) # {}
  /\ pollOp' = "refresh"
  /\ stepAnswer' = "none"
  /\ published' = NoPercent
  /\ cycles' = beginCycle(cycles, NextSlot(cycles))
  /\ stepCycle' = NextSlot(cycles)
  /\ stepOutcome' = beginOutcome
  /\ emitted' = beginEvents
  /\ UNCHANGED <<sessionKey, pollIntervalMs, cachedUsage, lastUsage,
                 pollInterval, liveTimers, isPolling>>

\* the try block as it would be without store.setCachedUsage(usage)
cycleSuccess_uncached(c, percent) ==
  /\ lastUsage' = percent
  /\ cachedUsage' = cachedUsage
  /\ emitted' = <<"usage:updated">>
  /\ published' = percent
  /\ pollInterval' = updatePollInterval(pollInterval, isPolling, pollIntervalMs, percent)
  /\ liveTimers' = liveTimers
  /\ cycles' = [cycles EXCEPT ![c] = IdleCycle]
  /\ stepOutcome' = "success"
  /\ UNCHANGED <<sessionKey, pollIntervalMs, isPolling>>

\* the try block after fetchUsageFromAPI returned usage (percent): store,
\* publish, update the timer, return
cycleSuccess(c, percent) ==
  /\ lastUsage' = percent
  /\ cachedUsage' = percent
  /\ emitted' = <<"usage:updated">>
  /\ published' = percent
  /\ pollInterval' = updatePollInterval(pollInterval, isPolling, pollIntervalMs, percent)
  /\ liveTimers' = liveTimers
  /\ cycles' = [cycles EXCEPT ![c] = IdleCycle]
  /\ stepOutcome' = "success"
  /\ UNCHANGED <<sessionKey, pollIntervalMs, isPolling>>

\* the catch block for an error with status 401 as it would be if it
\* cleared the stored session key
cycleUnauthorized_clearing(c) ==
  /\ emitted' = <<"auth:expired">>
  /\ published' = NoPercent
  /\ pollInterval' = stopTimer
  /\ liveTimers' = clearTimer(pollInterval, liveTimers)
  /\ isPolling' = FALSE
  /\ cycles' = [markStopped(cycles) EXCEPT ![c] = IdleCycle]
  /\ stepOutcome' = "unauthorized"
  /\ sessionKey' = Null
  /\ UNCHANGED <<pollIntervalMs, cachedUsage, lastUsage>>

\* the catch block for an error with status 401
cycleUnauthorized(c) ==
  /\ emitted' = <<"auth:expired">>
  /\ published' = NoPercent
  /\ pollInterval' = stopTimer
  /\ liveTimers' = clearTimer(pollInterval, liveTimers)
  /\ isPolling' = FALSE
  /\ cycles' = [markStopped(cycles) EXCEPT ![c] = IdleCycle]
  /\ stepOutcome' = "unauthorized"
  /\ UNCHANGED <<sessionKey, pollIntervalMs, cachedUsage, lastUsage>>

\* the backoff with the same delay before every retry
backoffDelay_fixed(retries) == BACKOFF_BASE_MS * 2

\* this.delay(1000 * Math.pow(2, retries))
backoffDelay(retries) == BACKOFF_BASE_MS * Pow2(retries)

\* giving up without the stale republish
exhaustedEvents_noFallback(cached) == <<"usage:error">>

\* giving up with the error masked by the stale republish
exhaustedEvents_masked(cached) ==
  IF cached # NoPercent THEN <<"usage:updated:stale">> ELSE <<"usage:error">>

\* the events of giving up: usage:error, then usage:updated with the cached
\* snapshot marked stale if getCachedUsage() returns one
exhaustedEvents(cached) ==
  IF cached # NoPercent
    THEN <<"usage:error", "usage:updated:stale">>
    ELSE <<"usage:error">>

\* the catch block as it would be without retries++: it backs off and tries
\* again whatever the number of failures
cycleFailure_uncounted(c) ==
  /\ emitted' = <<>>
  /\ published' = NoPercent
  /\ stepOutcome' = "none"
  /\ cycles' = [cycles EXCEPT ![c].pc = "backoff", ![c].delay = backoffDelay(1)]
  /\ UNCHANGED <<sessionKey, pollIntervalMs, cachedUsage, lastUsage,
                 pollInterval, liveTimers, isPolling>>

\* the catch block for any other error: count the retry, give up at
\* MAX_RETRIES (usage:error, stale republish of the cache), else back off
cycleFailure(c) ==
  LET retries == cycles[c].retries + 1 IN
  /\ IF retries >= MAX_RETRIES
       THEN /\ emitted' = exhaustedEvents(cachedUsage)
            /\ published' = cachedUsage
            /\ cycles' = [cycles EXCEPT ![c] = IdleCycle]
            /\ stepOutcome' = IF cachedUsage # NoPercent THEN "stale" ELSE "exhausted"
       ELSE /\ emitted' = <<>>
            /\ published' = NoPercent
            /\ stepOutcome' = "none"
            /\ cycles' = [cycles EXCEPT ![c].pc = "backoff", ![c].retries = retries,
                                        ![c].delay = backoffDelay(retries)]
  /\ UNCHANGED <<sessionKey, pollIntervalMs, cachedUsage, lastUsage,
                 pollInterval, liveTimers, isPolling>>

\* fetchUsageFromAPI: the answer to the bootstrap request arrives
BootstrapResponse ==
  \E c \in Cycles, answer \in BootstrapAnswers :
    /\ cycles[c].pc = "bootstrap"
    /\ pollOp' = "bootstrap"
    /\ stepAnswer' = answer
    /\ stepCycle' = c
    /\ CASE answer = "ok" ->
              /\ cycles' = [cycles EXCEPT ![c].pc = "usage"]
              /\ stepOutcome' = "none"
              /\ emitted' = <<>>
              /\ published' = NoPercent
              /\ UNCHANGED <<sessionKey, pollIntervalMs, cachedUsage, lastUsage,
                             pollInterval, liveTimers, isPolling>>
         [] answer = "401" -> cycleUnauthorized(c)
         [] OTHER -> cycleFailure(c)

\* fetchUsageFromAPI: the answer to the usage request arrives; a response
\* that is not ok leaves rateLimitData null and the parser reports 0%
UsageResponse ==
  \E c \in Cycles, answer \in UsageAnswers, percent \in PollPercents :
    /\ cycles[c].pc = "usage"
    /\ answer # "ok" => percent = 0
    /\ pollOp' = "usage"
    /\ stepAnswer' = answer
    /\ stepCycle' = c
    /\ IF answer = "neterr" THEN cycleFailure(c) ELSE cycleSuccess(c, percent)

\* the backoff delay of a cycle is over: the while loop tries again
BackoffDone ==
  \E c \in Cycles :
    /\ cycles[c].pc = "backoff"
    /\ pollOp' = "backoff"
    /\ stepAnswer' = "none"
    /\ published' = NoPercent
    /\ stepCycle' = c
    /\ stepOutcome' = "none"
    /\ emitted' = <<>>
    /\ cycles' = [cycles EXCEPT ![c].pc = "bootstrap"]
    /\ UNCHANGED <<sessionKey, pollIntervalMs, cachedUsage, lastUsage,
                   pollInterval, liveTimers, isPolling>>

\* the settings:set handler on pollIntervalMs: store.updateSetting(key, value)
UpdateSetting ==
  \E value \in PollSettings \ {pollIntervalMs} :
    /\ pollIntervalMs' = value
    /\ pollOp' = "setting"
    /\ stepAnswer' = "none"
    /\ published' = NoPercent
    /\ stepCycle' = 0
    /\ stepOutcome' = "none"
    /\ emitted' = <<>>
    /\ UNCHANGED <<sessionKey, cachedUsage, lastUsage, pollInterval, liveTimers,
                   isPolling, cycles>>

\* registerIPCHandlers: what the listener registered on usageService for an
\* event sends to the renderer ("none": no listener is registered)
usageServiceListener(event) ==
  CASE event \in {"usage:updated", "usage:updated:stale"} -> "usage:updated"
    [] event = "usage:error" -> "usage:error"
    [] OTHER -> "none"
\* the messages sent to the renderer for the events a step emitted
IpcSent(events) ==
  {usageServiceListener(events[i]) : i \in 1..Len(events)} \ {"none"}

PollNext ==
  \/ StartPolling
  \/ StopPolling
  \/ TimerTick
  \/ Refresh
  \/ BootstrapResponse
  \/ UsageResponse
  \/ BackoffDone
  \/ UpdateSetting

\* ============================================================= AuthService
\* the statuses validateSessionKey reports: 2xx, 401, another status, 0 for
\* a network error
ProbeStatuses == {200, 401, 500, 0}

\* validateSessionKey: { valid: response.ok, status }
responseOk(status) == status >= 200 /\ status < 300

\* checkSession taking every failure status for expiry
probeVerdict_strict(status) ==
  IF status = 401 \/ status = 500 THEN "expired"
  ELSE IF responseOk(status) THEN "valid" ELSE "retry"

\* checkSession taking 401 for one more inconclusive failure
probeVerdict_lenient(status) ==
  IF responseOk(status) THEN "valid" ELSE "retry"

\* what checkSession makes of a probe result: 401 is expiry, ok is valid,
\* anything else is tried again
probeVerdict(status) ==
  IF status = 401 THEN "expired"
  ELSE IF responseOk(status) THEN "valid" ELSE "retry"

AuthInit ==
  /\ checkPc = "idle"
  /\ attempt = 0
  /\ checkKey = Null
  /\ checkResult = "none"
  /\ probeLog = <<>>
  /\ probes = 0
  /\ authEmitted = <<>>

\* checkSession() up to its first await
CheckSession ==
  /\ checkPc \in {"idle", "done"}
  /\ checkKey' = sessionKey
  /\ probeLog' = <<>>
  /\ authEmitted' = <<>>
  /\ IF sessionKey = Null
       THEN /\ checkPc' = "done"
            /\ checkResult' = "false"
            /\ attempt' = 0
            /\ probes' = 0
       ELSE /\ checkPc' = "probe"
            /\ checkResult' = "none"
            /\ attempt' = 1
            /\ probes' = 1
  /\ UNCHANGED sessionKey

\* the probe of the current attempt is answered
ProbeResponse ==
  \E status \in ProbeStatuses :
    /\ checkPc = "probe"
    /\ probeLog' = Append(probeLog, status)
    /\ CASE probeVerdict(status) = "expired" ->
              /\ sessionKey' = Null
              /\ authEmitted' = Append(authEmitted, "auth:expired")
              /\ checkPc' = "done"
              /\ checkResult' = "false"
              /\ UNCHANGED <<attempt, probes>>
         [] probeVerdict(status) = "valid" ->
              /\ checkPc' = "done"
              /\ checkResult' = "true"
              /\ UNCHANGED <<sessionKey, authEmitted, attempt, probes>>
         [] OTHER ->
              /\ IF attempt < maxRetries
                   THEN /\ checkPc' = "delay"
                        /\ checkResult' = "none"
                   ELSE /\ checkPc' = "done"
                        /\ checkResult' = "true"
              /\ UNCHANGED <<sessionKey, authEmitted, attempt, probes>>
    /\ UNCHANGED checkKey

\* the retry delay is over: the next attempt of the for loop sends its probe
RetryDelayDone ==
  /\ checkPc = "delay"
  /\ attempt' = attempt + 1
  /\ probes' = probes + 1
  /\ checkPc' = "probe"
  /\ UNCHANGED <<sessionKey, checkKey, checkResult, probeLog, authEmitted>>

AuthNext == CheckSession \/ ProbeResponse \/ RetryDelayDone

\* ------------------------------------------------------- AuthService.login
\* the callbacks of checkLoginSuccess that can be suspended at one time
Checks == 1..MaxChecks

\* the host names of navigations
Hosts == {"claude.ai", "auth.claude.ai", "example.com"}
\* hostname.endsWith('.claude.ai')
endsWithClaudeAi(hostname) == hostname = "auth.claude.ai"
\* a pathname of a navigation: the set of the tested prefixes it starts
\* with, and "=/login" when it is '/login'
Pathnames == { {"=/login"}, {"/oauth"}, {"/new"}, {"/settings"}, {} }
startsWith(pathname, prefix) == prefix \in pathname
CLAUDE_SUCCESS_PATTERNS == {"/new", "/chat", "/project", "/recents", "/settings"}
NavigationUrls == [hostname : Hosts, pathname : Pathnames]

\* the navigation test without the test of the host name
isSuccessNavigation_anyHost(url) ==
  LET isSuccessPage == \E pattern \in CLAUDE_SUCCESS_PATTERNS : startsWith(url.pathname, pattern)
      isLoginPage == ("=/login" \in url.pathname) \/ startsWith(url.pathname, "/oauth")
  IN isSuccessPage /\ ~isLoginPage

\* isSuccessPage && !isLoginPage
isSuccessNavigation(url) ==
  LET isClaudeAi == url.hostname = "claude.ai" \/ endsWithClaudeAi(url.hostname)
      isSuccessPage == isClaudeAi /\
                       \E pattern \in CLAUDE_SUCCESS_PATTERNS : startsWith(url.pathname, pattern)
      isLoginPage == ("=/login" \in url.pathname) \/ startsWith(url.pathname, "/oauth")
  IN isSuccessPage /\ ~isLoginPage

\* the sessionKey cookie of the auth session: none, one whose value lacks
\* the prefix sk-ant-sid01-, or a session key
CookieValues == {Null, "noprefix", "k1", "k2"}
valueStartsWithPrefix(value) == value \in {"k1", "k2"}

\* captureSessionCookie: the value of the cookie named sessionKey whose
\* value starts with the prefix, or null
captureSessionCookie(cookie) ==
  IF cookie # Null /\ valueStartsWithPrefix(cookie) THEN cookie ELSE Null

\* no navigation
NoUrl == [hostname |-> "none", pathname |-> {}]

LoginInit ==
  /\ loginWindow = Null
  /\ windowClosing = FALSE
  /\ resolved = FALSE
  /\ checks = [i \in Checks |-> "free"]
  /\ authCookie = Null
  /\ loginResult = "none"
  /\ stores = 0
  /\ successes = 0
  /\ loginOp = "init"
  /\ captured = Null
  /\ navigated = NoUrl

\* login(): clears the cookies of the auth session, opens the window; one
\* capture attempt at a time
Login ==
  /\ loginResult # "pending"
  /\ loginWindow = Null
  /\ ~windowClosing
  /\ \A i \in Checks : checks[i] = "free"
  /\ loginWindow' = "open"
  /\ resolved' = FALSE
  /\ authCookie' = Null
  /\ loginResult' = "pending"
  /\ stores' = 0
  /\ successes' = 0
  /\ captured' = Null
  /\ navigated' = NoUrl
  /\ loginOp' = "login"
  /\ UNCHANGED <<windowClosing, checks, sessionKey>>

\* the page in the login window sets or replaces the sessionKey cookie
SetCookie ==
  \E value \in CookieValues \ {Null} :
    /\ loginWindow = "open"
    /\ authCookie # value
    /\ authCookie' = value
    /\ loginOp' = "cookie"
    /\ navigated' = NoUrl
    /\ UNCHANGED <<loginWindow, windowClosing, resolved, checks, loginResult,
                   stores, successes, captured, sessionKey>>

\* the test at the head of checkLoginSuccess
alreadyResolved(flag) == flag

\* did-navigate / did-navigate-in-page: checkLoginSuccess(url) up to its
\* first await (the settle delay)
Navigate ==
  \E url \in NavigationUrls, i \in Checks :
    /\ loginWindow = "open" \/ windowClosing
    /\ checks[i] = "free"
    /\ \A j \in Checks : checks[j] = "free" => i <= j
    /\ checks' = IF ~alreadyResolved(resolved) /\ isSuccessNavigation(url)
                   THEN [checks EXCEPT ![i] = "settle"]
                   ELSE checks
    /\ loginOp' = IF isSuccessNavigation(url) THEN "match" ELSE "nomatch"
    /\ navigated' = url
    /\ UNCHANGED <<loginWindow, windowClosing, resolved, authCookie, loginResult,
                   stores, successes, captured, sessionKey>>

\* the settle delay of callback i is over: it asks for the cookies
SettleDone ==
  \E i \in Checks :
    /\ checks[i] = "settle"
    /\ checks' = [checks EXCEPT ![i] = "cookie"]
    /\ loginOp' = "settled"
    /\ navigated' = NoUrl
    /\ UNCHANGED <<loginWindow, windowClosing, resolved, authCookie, loginResult,
                   stores, successes, captured, sessionKey>>

\* the promise of login() is settled by the first resolve only
resolveWith(result, value) == IF result = "pending" THEN value ELSE result

\* captureSessionCookie answered callback i: with a session key it sets
\* resolved, stores the key, emits auth:success, closes the window and
\* resolves { success: true }
CookieRead ==
  \E i \in Checks :
    /\ checks[i] = "cookie"
    /\ checks' = [checks EXCEPT ![i] = "free"]
    /\ captured' = captureSessionCookie(authCookie)
    /\ navigated' = NoUrl
    /\ IF captureSessionCookie(authCookie) # Null
         THEN /\ resolved' = TRUE
              /\ sessionKey' = captureSessionCookie(authCookie)
              /\ stores' = stores + 1
              /\ successes' = successes + 1
              /\ loginWindow' = Null
              /\ windowClosing' = (windowClosing \/ loginWindow = "open")
              /\ loginResult' = resolveWith(loginResult, "success")
              /\ loginOp' = "captured"
         ELSE /\ loginOp' = "nokey"
              /\ UNCHANGED <<resolved, sessionKey, stores, successes, loginWindow,
                             windowClosing, loginResult>>
    /\ UNCHANGED authCookie

\* the 'closed' event of the login window, after the user closed it or
\* after closeLoginWindow(): resolves { success: false, error: 'Login window closed' }
WindowClosed ==
  /\ loginWindow = "open" \/ windowClosing
  /\ loginWindow' = Null
  /\ windowClosing' = FALSE
  /\ loginResult' = resolveWith(loginResult, "closed")
  /\ loginOp' = "closed"
  /\ navigated' = NoUrl
  /\ UNCHANGED <<resolved, checks, authCookie, stores, successes, captured, sessionKey>>

LoginNext == Login \/ SetCookie \/ Navigate \/ SettleDone \/ CookieRead \/ WindowClosed

\* ===================================================== parseUsageResponse
\* a JSON value as the parser meets it: undefined (missing), a number, or a
\* value of the wrong type
Undefined == [t |-> "undefined", n |-> 0]
Num(n) == [t |-> "number", n |-> n]
WrongType == [t |-> "string", n |-> 0]
NaN == [t |-> "NaN", n |-> 0]
Utilizations == {Undefined, Num(-5), Num(0), Num(42), Num(100), Num(150), WrongType}
\* resets_at: missing, a string that is no date, an ISO date
ResetStrings == {"absent", "invalid", "2026-01-01T05:00:00.000Z"}
\* a window of the usage document: present says whether the field is there
AbsentWindow == [present |-> FALSE, utilization |-> Undefined, resets_at |-> "absent"]
Windows == {AbsentWindow} \cup
  [present : {TRUE}, utilization : Utilizations, resets_at : ResetStrings]
\* rateLimitData: null, or a document with its two windows
NoRateLimitData == [present |-> FALSE, five_hour |-> AbsentWindow, seven_day |-> AbsentWindow]
RateLimitDocs == {NoRateLimitData} \cup
  [present : {TRUE}, five_hour : Windows, seven_day : Windows]
\* rate_limit_tier of the first membership: missing, or the set of the
\* substrings the parser looks for that the lower-cased string includes
TierStrings ==
  { {"absent"},
    {"claude_max", "max_20", "20x"},
    {"claude_max", "max_5", "5x"},
    {"pro"},
    {"free"},
    {} }
includes(str, sub) == sub \in str

\* a ?? b
coalesce(v, d) == IF v.t \in {"undefined", "null"} THEN d ELSE v

\* parseResetTime(dateStr) || fallback
parseResetTime(dateStr) ==
  IF dateStr = "absent" THEN Null
  ELSE IF dateStr = "invalid" THEN Null
  ELSE dateStr
orElse(a, fallback) == IF a = Null THEN fallback ELSE a

\* the tier detected from rate_limit_tier, 'pro' when nothing matches
detectTier(rateLimitTier) ==
  IF includes(rateLimitTier, "absent") THEN "pro"
  ELSE IF includes(rateLimitTier, "max_20") \/ includes(rateLimitTier, "20x") THEN "max20"
  ELSE IF includes(rateLimitTier, "max_5") \/ includes(rateLimitTier, "5x")
            \/ includes(rateLimitTier, "claude_max") THEN "max5"
  ELSE IF includes(rateLimitTier, "pro") \/ includes(rateLimitTier, "plus") THEN "pro"
  ELSE IF includes(rateLimitTier, "free") \/ includes(rateLimitTier, "basic") THEN "free"
  ELSE "pro"

\* tierLimits
tierLimits(tier) ==
  CASE tier = "free"  -> [session |-> 10,  weekly |-> 50]
    [] tier = "pro"   -> [session |-> 45,  weekly |-> 500]
    [] tier = "max5"  -> [session |-> 225, weekly |-> 2500]
    [] tier = "max20" -> [session |-> 900, weekly |-> 10000]
    [] OTHER          -> [session |-> 45,  weekly |-> 500]

\* Math.round((utilization / 100) * limit)
estimateUsed(utilization, limit) ==
  IF utilization.t = "number"
    THEN Num((utilization.n * limit + 50) \div 100)
    ELSE NaN

\* the utilization read from a window of the usage document
readUtilization(doc, window) ==
  IF doc.present /\ window.present THEN coalesce(window.utilization, Num(0)) ELSE Num(0)
readResetsAt(doc, window) ==
  IF doc.present /\ window.present THEN window.resets_at ELSE "absent"

\* the percentage the parser puts into the snapshot
percentOf(utilization) == utilization

parseUsageResponse(bootstrap, rateLimit) ==
  LET fiveHourUtilization == readUtilization(rateLimit, rateLimit.five_hour)
      sevenDayUtilization == readUtilization(rateLimit, rateLimit.seven_day)
      tier == detectTier(bootstrap.rate_limit_tier)
      limits == tierLimits(tier)
  IN [sessionUsage |->
        [used |-> estimateUsed(fiveHourUtilization, limits.session),
         limit |-> limits.session,
         percentUsed |-> percentOf(fiveHourUtilization),
         resetAt |-> orElse(parseResetTime(readResetsAt(rateLimit, rateLimit.five_hour)),
                            "calculateSessionReset")],
      weeklyUsage |->
        [used |-> estimateUsed(sevenDayUtilization, limits.weekly),
         limit |-> limits.weekly,
         percentUsed |-> percentOf(sevenDayUtilization),
         resetAt |-> orElse(parseResetTime(readResetsAt(rateLimit, rateLimit.seven_day)),
                            "calculateWeeklyReset")],
      subscriptionTier |-> tier]

NotParsed == [subscriptionTier |-> "none"]

ParseInputs ==
  /\ bootstrapData \in [rate_limit_tier : TierStrings]
  /\ rateLimitData \in RateLimitDocs
  /\ parsed = NotParsed

ParseIdle ==
  /\ bootstrapData = [rate_limit_tier |-> {"absent"}]
  /\ rateLimitData = NoRateLimitData
  /\ parsed = NotParsed

\* fetchUsageFromAPI: return this.parseUsageResponse(bootstrapData, rateLimitData)
Parse ==
  /\ parsed = NotParsed
  /\ parsed' = parseUsageResponse(bootstrapData, rateLimitData)
  /\ UNCHANGED <<bootstrapData, rateLimitData>>

ParseNext == Parse

\* ===================================== usage:updated with a failing store
\* checkForUsageReset(usage) while the store cannot be written: the first
\* store.set throws, what the call assigned before stays assigned
checkForUsageResetFailing(st, usage) ==
  IF resetDetected(st.lastS, usage.sessionUsage.resetAt)
    THEN [st EXCEPT !.trig = {k \in st.trig : ~KeyStartsWith(k, "session")},
                    !.threw = TRUE]
    ELSE LET st2 == [st EXCEPT !.lastS = usage.sessionUsage.resetAt] IN
         IF resetDetected(st2.lastW, usage.weeklyUsage.resetAt)
           THEN [st2 EXCEPT !.trig = {k \in st2.trig : ~KeyStartsWith(k, "weekly")},
                            !.threw = TRUE]
           ELSE [st2 EXCEPT !.lastW = usage.weeklyUsage.resetAt]

\* the for loop of checkThresholds while the store cannot be written: the
\* first threshold that fires shows its notification and is added to
\* triggeredAlerts, the first flag that is dropped is deleted, then
\* persistTriggeredAlerts() throws
RECURSIVE checkLoopFailing(_, _, _, _, _)
checkLoopFailing(ths, i, st, usage, t) ==
  IF i > Len(ths) THEN st
  ELSE
    LET threshold == ths[i]
        currentPercent == IF threshold.type = "session"
                            THEN usage.sessionUsage.percentUsed
                            ELSE usage.weeklyUsage.percentUsed
        alertKey == AlertKey(threshold)
    IN IF ~threshold.enabled THEN checkLoopFailing(ths, i + 1, st, usage, t)
       ELSE IF shouldFire(currentPercent, threshold, st.trig, st.times, t)
         THEN [st EXCEPT !.trig = @ \cup {alertKey},
                         !.fired = @ \cup {alertKey},
                         !.threw = TRUE]
       ELSE IF shouldClear(currentPercent, threshold) /\ alertKey \in st.trig
         THEN [st EXCEPT !.trig = @ \ {alertKey}, !.threw = TRUE]
       ELSE checkLoopFailing(ths, i + 1, st, usage, t)

\* checkThresholds(usage) while the store cannot be written
checkThresholdsFailing(ths, st, usage, t) ==
  LET st1 == checkForUsageResetFailing(st, usage) IN
  IF st1.threw THEN st1 ELSE checkLoopFailing(ths, 1, st1, usage, t)

\* the alert state after an evaluation of usage that returned res
AlertBecomes(res, usage) ==
  /\ triggeredAlerts' = res.trig
  /\ storeTriggeredAlerts' = res.storeTrig
  /\ storeLastNotificationTimes' = res.times
  /\ lastSessionResetAt' = res.lastS
  /\ lastWeeklyResetAt' = res.lastW
  /\ storeLastSessionResetAt' = res.storeS
  /\ storeLastWeeklyResetAt' = res.storeW
  /\ firedNow' = res.fired
  /\ rolledNow' = res.rolled
  /\ clearedNow' = res.cleared
  /\ checkedNow' = usage
  /\ repeatNow' = FALSE
  /\ droppedNow' = {}
  /\ refiredNow' = {}
  /\ firedAt' = [k \in AllKeys |-> IF k \in res.fired THEN now ELSE firedAt[k]]
  /\ op' = IF res.threw THEN "threw" ELSE "check"
  /\ UNCHANGED <<thresholds, now, lastChecked, scen>>

\* the try block of fetchUsage when the usage:updated listener threw: the
\* snapshot is stored and was sent, the catch block counts a retry and
\* backs off
cycleListenerThrew(c, percent) ==
  LET retries == cycles[c].retries + 1 IN
  /\ lastUsage' = percent
  /\ cachedUsage' = percent
  /\ emitted' = <<"usage:updated">>
  /\ published' = percent
  /\ stepOutcome' = "none"
  /\ cycles' = [cycles EXCEPT ![c].pc = "backoff", ![c].retries = retries,
                              ![c].delay = backoffDelay(retries)]
  /\ UNCHANGED <<sessionKey, pollIntervalMs, pollInterval, liveTimers, isPolling>>

\* the usage request is answered with a snapshot; fetchUsage emits
\* usage:updated and the listener of handlers.ts calls checkThresholds.
\* storeFails: the store cannot be written during this evaluation (in an
\* attempt that is not the last of its cycle)
UsageDelivered ==
  \E c \in Cycles, usage \in SnapshotsFor(thresholds), storeFails \in BOOLEAN :
    /\ cycles[c].pc = "usage"
    /\ storeFails => cycles[c].retries + 1 < MAX_RETRIES
    /\ pollOp' = "usage"
    /\ stepAnswer' = "ok"
    /\ stepCycle' = c
    /\ \E res \in {IF storeFails
                     THEN checkThresholdsFailing(thresholds, AlertSt, usage, now)
                     ELSE checkThresholds(thresholds, AlertSt, usage, now)} :
         /\ AlertBecomes(res, usage)
         /\ IF res.threw
              THEN cycleListenerThrew(c, usage.sessionUsage.percentUsed)
              ELSE cycleSuccess(c, usage.sessionUsage.percentUsed)

\* a step of the poller that evaluates nothing
QuietPollStep(A) ==
  /\ A
  /\ op' = "poll"
  /\ NoStepObs
  /\ UNCHANGED <<thresholds, triggeredAlerts, lastSessionResetAt, lastWeeklyResetAt,
                 storeTriggeredAlerts, storeLastNotificationTimes,
                 storeLastSessionResetAt, storeLastWeeklyResetAt,
                 now, firedAt, lastChecked, scen>>

\* refresh() while no other cycle is under way
RefreshAlone == (\A c \in Cycles : cycles[c].pc = "idle") /\ Refresh

\* the clock advances while the poller and the alert engine rest
PersistTick ==
  /\ Tick
  /\ UNCHANGED <<sessionKey, pollIntervalMs, cachedUsage, pollInterval, liveTimers,
                 isPolling, lastUsage, cycles, pollOp, stepCycle, stepOutcome,
                 emitted, stepAnswer, published>>

PersistNext ==
  \/ QuietPollStep(RefreshAlone)
  \/ QuietPollStep(BootstrapResponse)
  \/ QuietPollStep(BackoffDone)
  \/ UsageDelivered
  \/ PersistTick

\* ========================================================== specifications
\* the credential lifecycle is not followed
NoHandler == [pc |-> "idle", cycle |-> 0]
CredIdle == credPart = "none" /\ credStep = "init" /\ handler = NoHandler
\* the state of a component that a specification does not run
AlertIdle == AlertInitWith({{}})
PollIdle ==
  /\ sessionKey = "k1"
  /\ pollIntervalMs = 0
  /\ cachedUsage = NoPercent
  /\ pollInterval = 0
  /\ liveTimers = 0
  /\ isPolling = FALSE
  /\ lastUsage = NoPercent
  /\ cycles = [c \in Cycles |-> IdleCycle]
  /\ pollOp = "init"
  /\ stepCycle = 0
  /\ stepOutcome = "none"
  /\ emitted = <<>>
  /\ stepAnswer = "none"
  /\ published = NoPercent
  /\ observeStops = FALSE
PollRest == <<pollIntervalMs, cachedUsage, pollInterval, liveTimers, isPolling, lastUsage,
              cycles, pollOp, stepCycle, stepOutcome, emitted, stepAnswer,
              published, observeStops>>

AlertInit == AlertInitWith(EnabledChoices) /\ PollIdle /\ AuthInit /\ ParseIdle /\ LoginInit /\ CredIdle
AlertSeqInit == AlertInitWith(SeqEnabledChoices) /\ PollIdle /\ AuthInit /\ ParseIdle /\ LoginInit /\ CredIdle

AlertNext ==
  /\ CheckThresholds \/ ClearAllAlerts \/ Restart \/ Tick
  /\ UNCHANGED <<pollVars, authVars, parseVars, loginVars, credVars>>
AlertSeqNext ==
  /\ CheckThresholdsSeq \/ ClearAllAlerts \/ Restart \/ Tick
  /\ UNCHANGED <<pollVars, authVars, parseVars, loginVars, credVars>>

\* the threshold engine under every snapshot, logout, restart and clock tick
SpecAlert == AlertInit /\ [][AlertNext]_vars
\* the threshold engine with the observers of call sequences
SpecAlertSeq == AlertSeqInit /\ [][AlertSeqNext]_vars

\* the poller under start, stop, refresh, timer ticks and upstream answers
PollSpecInit == PollInit /\ AlertIdle /\ AuthInit /\ ParseIdle /\ LoginInit /\ CredIdle
PollSpecNext == PollNext /\ UNCHANGED <<alertVars, authVars, parseVars, loginVars, credVars, observeStops>>
SpecPoll == PollSpecInit /\ [][PollSpecNext]_vars

\* the poller with the cycles under way at a stopPolling() marked
PollStopInit == PollInitObserving(TRUE) /\ AlertIdle /\ AuthInit /\ ParseIdle /\ LoginInit /\ CredIdle
SpecPollStop == PollStopInit /\ [][PollSpecNext]_vars

\* logout(): store.clearAuth(), the cookies of the auth session are cleared
Logout ==
  /\ sessionKey' = Null
  /\ authCookie' = Null
  /\ navigated' = NoUrl
  /\ UNCHANGED authVars
  /\ UNCHANGED <<loginWindow, windowClosing, resolved, checks, loginResult,
                 stores, successes, loginOp, captured>>

\* store.setSessionKey(sessionKey) of a login capture
LoginCaptured ==
  \E key \in {"k1", "k2"} :
    /\ sessionKey' = key
    /\ UNCHANGED authVars
    /\ UNCHANGED loginVars

\* the poller with every answer arriving, every backoff ending and an armed
\* timer firing in the end
PollStep(A) == A /\ UNCHANGED <<alertVars, authVars, parseVars, loginVars, credVars, observeStops>>
PollFairness ==
  /\ WF_vars(PollStep(BootstrapResponse))
  /\ WF_vars(PollStep(UsageResponse))
  /\ WF_vars(PollStep(BackoffDone))
  /\ WF_vars(PollStep(TimerTick))
SpecPollLive == PollSpecInit /\ [][PollSpecNext]_vars /\ PollFairness

\* the steps of the fetch cycles of a poller with the default interval,
\* upstream reporting one percentage
TermPercents == {0}
TermInit == PollSpecInit /\ pollIntervalMs = 0
CycleStep(A, c) ==
  /\ PollStep(A)
  /\ stepCycle' = c
  /\ published' \in TermPercents \cup {NoPercent, cachedUsage}
\* the next step of the cycle in slot c: the answer to its request arrives
\* or its backoff delay ends
CycleGoesOn(c) ==
  \/ CycleStep(BootstrapResponse, c)
  \/ CycleStep(UsageResponse, c)
  \/ CycleStep(BackoffDone, c)
TermNext ==
  \/ PollStep(StartPolling) \/ PollStep(StopPolling)
  \/ PollStep(TimerTick) \/ PollStep(Refresh)
  \/ \E c \in Cycles : CycleGoesOn(c)
\* the request of every cycle is answered and the backoff of every cycle
\* ends
CycleFairness == \A c \in Cycles : WF_vars(CycleGoesOn(c))
SpecPollTerm == TermInit /\ [][TermNext]_vars /\ CycleFairness

\* session validation while the credential is captured and cleared
AuthSpecInit == AuthInit /\ PollIdle /\ AlertIdle /\ ParseIdle /\ LoginInit /\ CredIdle
AuthSpecNext ==
  /\ (AuthNext /\ UNCHANGED loginVars) \/ Logout \/ LoginCaptured
  /\ UNCHANGED <<alertVars, PollRest, parseVars, credVars>>
SpecAuth == AuthSpecInit /\ [][AuthSpecNext]_vars

\* login capture attempts under navigations, cookie changes and window
\* closes, with logouts in between
LoginSpecInit == LoginInit /\ PollIdle /\ AlertIdle /\ AuthInit /\ ParseIdle /\ CredIdle
LoginSpecNext ==
  /\ LoginNext \/ Logout
  /\ UNCHANGED <<alertVars, PollRest, authVars, parseVars, credVars>>
SpecLogin == LoginSpecInit /\ [][LoginSpecNext]_vars

\* the credential lifecycle: the steps of the poller interleaved with
\* logouts and the stores of login captures, or the steps of checkSession
\* and of login capture attempts interleaved with each other and logouts
CredParts == {"poll", "session"}
\* the navigations of the capture attempts here: one to a post-login page,
\* one to a foreign host
CredUrls == {[hostname |-> "claude.ai", pathname |-> {"/new"}],
             [hostname |-> "example.com", pathname |-> {"/new"}]}
CredInit ==
  /\ credPart \in CredParts
  /\ credStep = "init"
  /\ handler = NoHandler
  /\ PollIdle /\ AuthInit /\ LoginInit /\ AlertIdle /\ ParseIdle
CredNext ==
  /\ \/ /\ credPart = "poll"
        /\ \/ StartPolling \/ StopPolling \/ TimerTick \/ Refresh
           \/ BootstrapResponse \/ UsageResponse \/ BackoffDone
        /\ credStep' = "poll"
        /\ UNCHANGED <<authVars, loginVars, observeStops>>
     \/ /\ credPart = "session"
        /\ AuthNext
        /\ credStep' = "validate"
        /\ UNCHANGED <<PollRest, loginVars>>
     \/ /\ credPart = "session"
        /\ LoginNext
        /\ navigated' \in CredUrls \cup {NoUrl}
        /\ credStep' = "login"
        /\ UNCHANGED <<PollRest, authVars>>
     \/ /\ Logout
        /\ credStep' = "logout"
        /\ UNCHANGED PollRest
     \/ /\ credPart = "poll"
        /\ LoginCaptured
        /\ sessionKey' = "k1"
        /\ credStep' = "captured"
        /\ UNCHANGED PollRest
  /\ UNCHANGED <<alertVars, parseVars, credPart, handler>>
SpecCred == CredInit /\ [][CredNext]_vars

\* fetch cycles whose snapshots are evaluated by the alert engine while
\* store writes can fail
PersistChoices == {{<<"session", 75>>}}
PersistInit == AlertInitWith(PersistChoices) /\ PollIdle /\ AuthInit /\ ParseIdle /\ LoginInit /\ CredIdle
PersistSpecNext == PersistNext /\ UNCHANGED <<authVars, parseVars, loginVars, credVars, observeStops>>
SpecPersist == PersistInit /\ [][PersistSpecNext]_vars

\* ------------------------------------------- the session of a running app
\* the statuses the probes of checkSession are answered with here, and the
\* answers and percentages of the requests of the poller
SessionStatuses == {200, 401, 0}
SessionAnswers == {"ok", "401", "neterr"}
SessionPollPercents == {80}

\* the auth:login handler after login() resolved with success: the session
\* key is stored, the handler goes on in a later turn
LoginResolved ==
  /\ handler.pc = "idle"
  /\ sessionKey = Null
  /\ LoginCaptured
  /\ sessionKey' = "k1"
  /\ handler' = [pc |-> "login", cycle |-> 0]
  /\ UNCHANGED <<PollRest, alertVars, parseVars, credPart, credStep>>

\* the auth:login handler: await usageService.fetchUsage()
LoginPreload ==
  /\ handler.pc = "login"
  /\ Refresh
  /\ handler' = [pc |-> "preload", cycle |-> stepCycle']
  /\ UNCHANGED <<authVars, loginVars, alertVars, parseVars, credPart, credStep, observeStops>>

\* the auth:login handler after its fetchUsage() returned: startPolling()
LoginStartPolling ==
  /\ handler.pc = "preload"
  /\ handler.cycle \notin InFlight(cycles)
  /\ StartPolling
  /\ handler' = NoHandler
  /\ UNCHANGED <<authVars, loginVars, alertVars, parseVars, credPart, credStep, observeStops>>

\* the auth:logout handler up to its await: authService.logout() clears the
\* stored key
LogoutBegin ==
  /\ handler.pc = "idle"
  /\ sessionKey # Null
  /\ Logout
  /\ handler' = [pc |-> "logout", cycle |-> 0]
  /\ UNCHANGED <<PollRest, alertVars, parseVars, credPart, credStep>>

\* the auth:logout handler after logout() returned: stopPolling(),
\* clearAllAlerts()
LogoutEnd ==
  /\ handler.pc = "logout"
  /\ StopPolling
  /\ ClearAllAlerts
  /\ handler' = NoHandler
  /\ UNCHANGED <<authVars, loginVars, parseVars, credPart, credStep, observeStops>>

\* the auth:check-session handler: checkSession() and its probes
SessionCheck ==
  /\ AuthNext
  /\ probeLog' # <<>> => probeLog'[Len(probeLog')] \in SessionStatuses
  /\ UNCHANGED <<PollRest, loginVars, alertVars, handler, parseVars, credPart, credStep>>

\* the timer and the requests of the poller
SessionPoll(A) ==
  /\ A
  /\ stepAnswer' \in SessionAnswers \cup {"none"}
  /\ published' \in SessionPollPercents \cup {NoPercent}
  /\ UNCHANGED <<authVars, loginVars, alertVars, handler, parseVars, credPart, credStep, observeStops>>

SessionInit ==
  /\ PollInit /\ sessionKey = Null /\ pollIntervalMs = 0 /\ cachedUsage = NoPercent
  /\ AlertIdle /\ AuthInit /\ ParseIdle /\ LoginInit /\ CredIdle
SessionNext ==
  \/ LoginResolved \/ LoginPreload \/ LoginStartPolling
  \/ LogoutBegin \/ LogoutEnd
  \/ SessionCheck
  \/ SessionPoll(TimerTick) \/ SessionPoll(BootstrapResponse)
  \/ SessionPoll(UsageResponse) \/ SessionPoll(BackoffDone)
\* every answer arrives, every delay ends, an armed timer fires and a
\* resumed handler runs
SessionFairness ==
  /\ WF_vars(SessionPoll(TimerTick))
  /\ WF_vars(SessionPoll(BootstrapResponse))
  /\ WF_vars(SessionPoll(UsageResponse))
  /\ WF_vars(SessionPoll(BackoffDone))
  /\ WF_vars(LoginPreload) /\ WF_vars(LoginStartPolling) /\ WF_vars(LogoutEnd)
  /\ WF_vars(SessionCheck /\ checkPc \in {"probe", "delay"})
\* login, logout and session checks of a running application with its poller
SpecSession == SessionInit /\ [][SessionNext]_vars /\ SessionFairness

\* the parser on every input
ParseSpecInit == ParseInputs /\ PollIdle /\ AlertIdle /\ AuthInit /\ LoginInit /\ CredIdle
ParseSpecNext == ParseNext /\ UNCHANGED <<alertVars, pollVars, authVars, loginVars, credVars>>
SpecParse == ParseSpecInit /\ [][ParseSpecNext]_vars

\* ============================================================ poller claims
HasUpdate(events) ==
  \E i \in 1..Len(events) : events[i] \in {"usage:updated", "usage:updated:stale"}

\* C1: at most one fetch cycle is under way at any time, so no two upstream
\* requests are outstanding at once.
C1_SingleFlight ==
  /\ Cardinality(InFlight(cycles)) <= 1
  /\ Cardinality(Requesting(cycles)) <= 1

\* C2: a cycle that was under way when stopPolling() ran finishes without
\* effect: its steps publish no usage-updated event, write neither the cache
\* nor the last usage, and start no retry.
C2_StopDiscards ==
  [][(stepCycle' # 0 /\ cycles[stepCycle'].pc \in InFlightPcs /\ cycles[stepCycle'].stopped) =>
       /\ ~HasUpdate(emitted')
       /\ cachedUsage' = cachedUsage
       /\ lastUsage' = lastUsage
       /\ cycles'[stepCycle'].pc # "backoff"]_vars

\* C11: a request of a cycle answered with 401 ends the cycle in that step:
\* it emits auth:expired and no usage-updated, starts no retry, clears the
\* timer and the running flag; and a timer-driven cycle starts only while
\* the poller is running.
C11_UnauthorizedTerminal ==
  [][/\ stepAnswer' = "401" =>
          /\ stepOutcome' = "unauthorized"
          /\ emitted' = <<"auth:expired">>
          /\ cycles'[stepCycle'].pc = "idle"
          /\ pollInterval' = stopTimer
          /\ ~isPolling'
          /\ lastUsage' = lastUsage
          /\ cachedUsage' = cachedUsage
     /\ pollOp' = "timer" => isPolling /\ pollInterval # stopTimer]_vars

\* C12: after a cycle of the poller ended on 401, the stored credential is
\* cleared in the end, and the step that ended the cycle sent
\* auth:status-changed(isAuthenticated=false) to the renderer.
C12_ExpiryPropagated ==
  /\ (stepOutcome = "unauthorized") ~> (sessionKey = Null)
  /\ [](stepOutcome = "unauthorized" => "auth:status-changed:false" \in IpcSent(emitted))

\* the answers that make fetchUsageFromAPI throw an error other than 401
FailedAnswer(operation, answer) ==
  \/ operation = "bootstrap" /\ answer \in {"noorg", "500", "neterr"}
  \/ operation = "usage" /\ answer = "neterr"

Exhausting ==
  /\ stepCycle' # 0
  /\ FailedAnswer(pollOp', stepAnswer')
  /\ cycles[stepCycle'].retries + 1 >= 3
Count(events, event) == Cardinality({i \in 1..Len(events) : events[i] = event})

\* C14: the step in which a cycle gives up republishes the cached snapshot,
\* marked stale and unchanged, when the cache holds one, and publishes no
\* usage-updated at all when the cache is empty; the cache is left as it is.
C14_StaleFallback ==
  [][Exhausting =>
       /\ cachedUsage' = cachedUsage
       /\ Count(emitted', "usage:updated") = 0
       /\ IF cachedUsage # NoPercent
            THEN /\ Count(emitted', "usage:updated:stale") = 1
                 /\ published' = cachedUsage
                 /\ stepOutcome' = "stale"
            ELSE /\ Count(emitted', "usage:updated:stale") = 0
                 /\ published' = NoPercent
                 /\ stepOutcome' = "exhausted"]_vars

\* C14 witness: a cycle gave up and republished the cached 90% as stale.
C14_Witness ==
  /\ stepOutcome = "stale"
  /\ FailedAnswer(pollOp, stepAnswer)
  /\ cachedUsage = 90
  /\ published = 90
  /\ emitted = <<"usage:error", "usage:updated:stale">>

\* C15 (as the code has it): the step in which a cycle gives up emits
\* exactly one usage:error, whether or not the cache holds a snapshot; a
\* cycle begun without credential emits exactly one; no other step emits
\* one.
C15_UsageError ==
  [][/\ Exhausting => Count(emitted', "usage:error") = 1
     /\ stepOutcome' = "nocred" => emitted' = <<"usage:error">>
     /\ ~Exhausting /\ stepOutcome' # "nocred" => Count(emitted', "usage:error") = 0]_vars

\* C15 as claimed: a cycle that gives up while the cache holds a snapshot
\* emits no usage:error, and one that gives up with an empty cache emits
\* exactly one.
C15_UsageError_Claimed ==
  [][Exhausting =>
       Count(emitted', "usage:error") = (IF cachedUsage # NoPercent THEN 0 ELSE 1)]_vars

\* C15 witness: a cycle gave up while the cache held a snapshot and emitted
\* usage:error before the stale republish.
C15_Witness ==
  /\ stepOutcome = "stale"
  /\ FailedAnswer(pollOp, stepAnswer)
  /\ cachedUsage # NoPercent
  /\ emitted[1] = "usage:error"
  /\ Len(emitted) = 2

Updates(events) == Count(events, "usage:updated") + Count(events, "usage:updated:stale")

\* C16: a step of a cycle publishes usage-updated only when it ends the
\* cycle, and then exactly once if the cycle ends in success or stale
\* fallback and not at all if it ends without credential, on an
\* unauthorized answer or exhausted without cache.
C16_OneUpdatePerCycle ==
  [][stepCycle' # 0 =>
       /\ Updates(emitted') <= 1
       /\ stepOutcome' = "none" => Updates(emitted') = 0
       /\ (stepAnswer' = "401" \/ stepOutcome' \in {"nocred", "unauthorized", "exhausted"}) =>
            Updates(emitted') = 0
       /\ (stepOutcome' \in {"success", "stale"} /\ stepAnswer' # "401") =>
            Updates(emitted') = 1]_vars

\* C17: startPolling() on a running poller changes nothing and starts no
\* fetch; on a stopped poller it sets the flag, leaves exactly one timer
\* set and calls fetchUsage() once; never is more than one timer set.
C17_StartIdempotent ==
  [][/\ pollOp' = "start" =>
          IF isPolling
            THEN /\ UNCHANGED <<isPolling, pollInterval, liveTimers, cycles,
                                cachedUsage, lastUsage>>
                 /\ stepCycle' = 0
                 /\ emitted' = <<>>
            ELSE /\ isPolling'
                 /\ liveTimers' = 1
                 /\ pollInterval' # stopTimer
                 /\ stepCycle' # 0
                 /\ IF sessionKey = Null
                      THEN cycles' = cycles /\ emitted' = <<"usage:error">>
                      ELSE /\ stepCycle' \notin InFlight(cycles)
                           /\ InFlight(cycles') = InFlight(cycles) \cup {stepCycle'}
                           /\ cycles'[stepCycle'].pc = "bootstrap"
                           /\ \A c \in Cycles \ {stepCycle'} : cycles'[c] = cycles[c]
     /\ liveTimers' <= 1]_vars

\* C17 witness: startPolling() was called on a running poller.
C17_Witness ==
  /\ pollOp = "start"
  /\ stepCycle = 0
  /\ isPolling
  /\ liveTimers = 1
  /\ InFlight(cycles) # {}

\* C18: a timer-driven cycle starts only when no earlier cycle is running.
C18_NoOverlap ==
  [][pollOp' = "timer" => InFlight(cycles) = {}]_vars

\* the interval the adaptive rule asks for: the base, or the smaller of the
\* base and 30 s when the last session percentage is above 80
AdaptiveInterval(setting, last) ==
  LET base == IF setting = 0 THEN 60000 ELSE setting IN
  IF last > 80 THEN (IF base < 30000 THEN base ELSE 30000) ELSE base

C20_RecomputedEachCycle ==
  [][(stepOutcome' \in {"success", "stale", "exhausted"} /\ isPolling /\ pollInterval # stopTimer) =>
       pollInterval' = getPollInterval(pollIntervalMs, lastUsage')]_vars


\* a step in which a call of fetchUsage() started
CycleStarted == pollOp' \in {"start", "timer", "refresh"} /\ stepCycle' # 0

\* C21: a fetch cycle started while no session key is stored emits usage:error
\* (Not authenticated) and ends at once: it sends no request, publishes no
\* snapshot and leaves the cached snapshot and the last usage as they were
C21_NoCredential ==
  [][(CycleStarted /\ sessionKey = Null) =>
       /\ stepOutcome' = "nocred"
       /\ emitted' = <<"usage:error">>
       /\ ~HasUpdate(emitted')
       /\ published' = NoPercent
       /\ cycles' = cycles
       /\ Requesting(cycles') = {}
       /\ cachedUsage' = cachedUsage
       /\ lastUsage' = lastUsage
       /\ sessionKey' = Null]_vars

\* a refresh() without session key ended with usage:error while a snapshot
\* of an earlier run is cached
C21_Witness ==
  /\ pollOp = "refresh"
  /\ sessionKey = Null
  /\ stepOutcome = "nocred"
  /\ emitted = <<"usage:error">>
  /\ cachedUsage = 90
  /\ Requesting(cycles) = {}


\* C31: a fresh snapshot is published and cached only by the step in which
\* the usage request, sent after a successful bootstrap request, is answered
\* 2xx; an answer 401, 500 or a network error to the usage request publishes
\* no fresh snapshot and leaves the cache and the last usage as they were.
C31_BothDocuments ==
  [][/\ stepOutcome' = "success" => (pollOp' = "usage" /\ stepAnswer' = "ok")
     /\ (pollOp' = "usage" /\ stepAnswer' # "ok") =>
          /\ Count(emitted', "usage:updated") = 0
          /\ cachedUsage' = cachedUsage
          /\ lastUsage' = lastUsage]_vars


\* C37: at every point of every sequence of startPolling(), stopPolling(),
\* refresh(), timer ticks and steps of fetch cycles, a setInterval timer is
\* armed exactly if the running flag is set, this.pollInterval refers to a
\* timer exactly then, and no more than one timer is armed.
C37_TimerIffRunning ==
  /\ liveTimers > 0 <=> isPolling
  /\ pollInterval # stopTimer <=> isPolling
  /\ liveTimers <= 1

\* C37 witness: a cycle that was under way at a stopPolling() is still under
\* way after the startPolling() that followed, with one timer armed.
C37_Witness ==
  /\ isPolling
  /\ liveTimers = 1
  /\ pollOp = "start"
  /\ \E c \in InFlight(cycles) : cycles[c].stopped


CycleEnded(c) == c \in InFlight(cycles) /\ c \notin InFlight(cycles')

\* C39: every call of fetchUsage() that is under way returns in the end,
\* given that its requests are answered and its delays end; it fails fewer
\* than MAX_RETRIES times before it returns, and the step in which it returns
\* ends it as exactly one of success, unauthorized, stale (retries exhausted
\* with cached snapshot) and exhausted (without); a call that finds no
\* session key returns in the step that started it, as nocred.
C39_CycleTerminates ==
  /\ \A c \in Cycles : []<>(c \notin InFlight(cycles))
  /\ [](\A c \in Cycles : cycles[c].retries < MAX_RETRIES)
  /\ [][\A c \in Cycles :
          /\ CycleEnded(c) =>
               /\ stepCycle' = c
               /\ stepOutcome' \in {"success", "unauthorized", "stale", "exhausted"}
          /\ (CycleStarted /\ stepCycle' = c) =>
               IF sessionKey = Null
                 THEN stepOutcome' = "nocred" /\ c \notin InFlight(cycles')
                 ELSE stepOutcome' = "none" /\ c \in InFlight(cycles')
          /\ (stepCycle' = c /\ stepOutcome' # "none") => c \notin InFlight(cycles')]_vars

\* C39 witness: a cycle gave up after MAX_RETRIES failed attempts, the last
\* one a network error, with no snapshot cached.
C39_Witness ==
  /\ stepOutcome = "exhausted"
  /\ stepAnswer = "neterr"
  /\ stepCycle \in Cycles
  /\ cycles[stepCycle] = IdleCycle
  /\ cachedUsage = NoPercent

\* ============================================================== auth claims
ProbeAnswered == Len(probeLog') = Len(probeLog) + 1
LastStatus(log) == log[Len(log)]

\* C8: a probe answered with a status that is neither 401 nor a success is
\* inconclusive: the credential stays as it is, no auth:expired is emitted,
\* the call goes on to a retry delay while it has made fewer than 3 probes
\* and returns true on the third, so it never sends more than 3 probes.
C8_Inconclusive ==
  [][(ProbeAnswered /\ LastStatus(probeLog') # 401 /\ ~responseOk(LastStatus(probeLog'))) =>
       /\ sessionKey' = sessionKey
       /\ authEmitted' = authEmitted
       /\ probes' <= 3
       /\ IF Len(probeLog') < 3
            THEN checkPc' = "delay" /\ checkResult' = "none"
            ELSE checkPc' = "done" /\ checkResult' = "true" /\ Len(probeLog') = 3 /\ probes' = 3]_vars

\* C8 witness: three network failures (status 0) in a row, the call returned
\* true and the credential is the one the call read.
C8_Witness ==
  /\ checkPc = "done"
  /\ probeLog = <<0, 0, 0>>
  /\ checkResult = "true"
  /\ checkKey # Null
  /\ sessionKey = checkKey
  /\ authEmitted = <<>>

\* C9: a probe answered with 401, on whatever attempt, ends the call: the
\* credential is cleared, auth:expired is emitted, the call returns false,
\* and no probe is answered or sent after a 401.
C9_Definitive ==
  [][ProbeAnswered =>
       /\ \A i \in 1..Len(probeLog) : probeLog[i] # 401
       /\ LastStatus(probeLog') = 401 =>
            /\ sessionKey' = Null
            /\ authEmitted' = Append(authEmitted, "auth:expired")
            /\ checkResult' = "false"
            /\ checkPc' = "done"
            /\ probes' = probes]_vars

\* C9 witness: the second probe of a call was answered with 401.
C9_Witness ==
  /\ checkPc = "done"
  /\ Len(probeLog) = 2
  /\ probeLog[2] = 401
  /\ sessionKey = Null
  /\ checkResult = "false"
  /\ authEmitted = <<"auth:expired">>



\* C35: checkSession clears only the session key it probed: when a probe is
\* answered 401 while the stored key is no longer the key the call read at
\* its start, the stored key stays.
C35_ClearsProbedOnly ==
  [][(ProbeAnswered /\ LastStatus(probeLog') = 401 /\ sessionKey # checkKey) =>
       sessionKey' = sessionKey]_vars

\* ==================================================== login capture claims
\* C25: within one capture attempt, whatever navigations are observed, the
\* session key is stored at most once and auth:success is emitted at most
\* once.
C25_StoredOnce ==
  /\ stores <= 1
  /\ successes <= 1


\* C26: when the login window is closed before a capture obtained a session
\* key, login() resolves { success: false } (login window closed); an
\* attempt that obtained a session key resolves { success: true }.
C26_CaptureOutcome ==
  [][/\ (loginOp' = "closed" /\ loginResult = "pending" /\ stores = 0)
          => loginResult' = "closed"
     /\ stores' >= 1 => loginResult' = "success"]_vars



\* the host is the trusted authentication domain or one of its subdomains
TrustedHost(url) == url.hostname \in {"claude.ai", "auth.claude.ai"}
\* the path starts with a post-login prefix
PostLoginPath(url) == url.pathname \cap CLAUDE_SUCCESS_PATTERNS # {}
\* the path is the login path or an OAuth path
LoginPath(url) == url.pathname \cap {"=/login", "/oauth"} # {}
\* the callback of a navigation went on in the step
CallbackStep(i) ==
  \/ checks[i] = "free" /\ checks'[i] = "settle"
  \/ checks[i] = "settle" /\ checks'[i] = "cookie"
  \/ checks[i] = "cookie" /\ checks'[i] = "free"

\* C33: a step stores a credential only when it is the cookie read of a
\* callback of checkLoginSuccess and the auth session then holds a sessionKey
\* cookie whose value has the prefix, and it stores that value; such a
\* callback is started only by a navigation to the trusted host with a
\* post-login path that is no login or OAuth path; a navigation failing one
\* of the conditions starts no callback and stores nothing.
C33_CaptureConditions ==
  [][/\ (stores' > stores \/ (sessionKey' # sessionKey /\ sessionKey' # Null)) =>
          /\ \E i \in Checks : checks[i] = "cookie" /\ checks'[i] = "free"
          /\ authCookie # Null
          /\ valueStartsWithPrefix(authCookie)
          /\ sessionKey' = authCookie
     /\ \A i \in Checks :
          checks'[i] # checks[i] =>
            /\ CallbackStep(i)
            /\ checks'[i] = "settle" =>
                 /\ navigated' # NoUrl
                 /\ TrustedHost(navigated')
                 /\ PostLoginPath(navigated')
                 /\ ~LoginPath(navigated')
     /\ (/\ navigated' # NoUrl
         /\ ~(TrustedHost(navigated') /\ PostLoginPath(navigated') /\ ~LoginPath(navigated'))) =>
          /\ checks' = checks
          /\ sessionKey' = sessionKey
          /\ stores' = stores]_vars

\* C33 witness: after a navigation that started a callback, the callback
\* read the cookie k1, stored it and resolved the login with success.
C33_Witness ==
  /\ loginOp = "captured"
  /\ captured = "k1"
  /\ sessionKey = "k1"
  /\ authCookie = "k1"
  /\ stores = 1
  /\ loginResult = "success"


\* C34: a capture attempt that login() reported as cancelled (login window
\* closed) has stored no session key and emitted no auth:success, at the
\* time it is reported and at any time after.
C34_CancelledStoresNothing ==
  loginResult = "closed" => (stores = 0 /\ successes = 0)

\* ================================================ persistence failure claims
\* C28: when a store write fails during an evaluation, the fetch cycle that
\* published the snapshot still ends as a success (no retry, no backoff, no
\* usage:error), and a key that fired in an evaluation is not fired again
\* within its cooldown.
C28_PersistenceFailure ==
  [][/\ op' = "threw" =>
          /\ stepOutcome' = "success"
          /\ cycles'[stepCycle'].pc = "idle"
     /\ \A k \in firedNow' :
          firedAt[k] # NoTime => now' - firedAt[k] >= NOTIFICATION_COOLDOWN_H]_vars

\* ============================================================ parser claims
InPercentRange(v) == v.t = "number" /\ 0 <= v.n /\ v.n <= 100

\* C10: every snapshot the parser returns has 0 <= percentUsed <= 100 for
\* the session and the weekly window.
C10_PercentRange ==
  parsed # NotParsed =>
    /\ InPercentRange(parsed.sessionUsage.percentUsed)
    /\ InPercentRange(parsed.weeklyUsage.percentUsed)


\* the bootstrap document carries no tier signal: rate_limit_tier is missing
\* or includes none of the substrings the parser looks for
NoTierSignal(bootstrap) ==
  \/ includes(bootstrap.rate_limit_tier, "absent")
  \/ bootstrap.rate_limit_tier = {}
\* rateLimitData is null or a document without windows
EmptyRateLimit(rateLimit) ==
  ~rateLimit.present \/ (~rateLimit.five_hour.present /\ ~rateLimit.seven_day.present)

\* C27: for a bootstrap document without tier signal and an absent or empty
\* usage document the parser returns a snapshot with subscriptionTier
\* unknown and 0% usage for both windows.
C27_UnknownFallback ==
  (parsed # NotParsed /\ NoTierSignal(bootstrapData) /\ EmptyRateLimit(rateLimitData)) =>
    /\ parsed.subscriptionTier = "unknown"
    /\ parsed.sessionUsage.percentUsed = Num(0)
    /\ parsed.weeklyUsage.percentUsed = Num(0)
    /\ parsed.sessionUsage.used = Num(0)
    /\ parsed.weeklyUsage.used = Num(0)

\* ===================================================== alert engine claims
\* the percentage of the usage type of key in snapshot usage
PercentOf(usage, key) ==
  IF key[1] = "session" THEN usage.sessionUsage.percentUsed
  ELSE usage.weeklyUsage.percentUsed
ResetAtOf(usage, type) ==
  IF type = "session" THEN usage.sessionUsage.resetAt ELSE usage.weeklyUsage.resetAt
LastResetAt(type) == IF type = "session" THEN lastSessionResetAt ELSE lastWeeklyResetAt
StoreLastResetAt(type) ==
  IF type = "session" THEN storeLastSessionResetAt ELSE storeLastWeeklyResetAt
\* the cooldown of key has elapsed at time t, by the observer of firings
CooldownOver(key, t) ==
  firedAt[key] = NoTime \/ t - firedAt[key] >= NOTIFICATION_COOLDOWN_H
AlertState ==
  <<triggeredAlerts, storeLastNotificationTimes, lastSessionResetAt, lastWeeklyResetAt>>

\* C3: any two firings of one alert key are at least the cooldown (4 hours)
\* apart, over every sequence of snapshots, hysteresis drops, rollovers,
\* logouts and restarts: a key that fires in a step had its previous firing,
\* if any, at least NOTIFICATION_COOLDOWN_H before.
C3_Cooldown ==
  [][\A k \in firedNow' :
       firedAt[k] # NoTime => now' - firedAt[k] >= NOTIFICATION_COOLDOWN_H]_vars

\* C3 witness: an evaluation found a key at or above its percentage whose
\* triggered flag a rollover had just cleared, less than the cooldown after
\* its firing, and did not fire it.
C3_Witness ==
  /\ op = "check"
  /\ \E k \in clearedNow :
       /\ PercentOf(checkedNow, k) >= k[2]
       /\ firedAt[k] # NoTime
       /\ now - firedAt[k] \in 1..(NOTIFICATION_COOLDOWN_H - 1)
       /\ k \notin firedNow
       /\ k \notin triggeredAlerts

\* C6: when the resetAt of a usage type in the snapshot differs from the
\* stored one, every triggered flag of the type is cleared before the
\* thresholds are evaluated (so a flag of the type is set afterwards only if
\* its key fired in this evaluation, and a key of the type that is reached
\* and out of cooldown fires although it was triggered), and the stored
\* resetAt, in memory and persisted, becomes the snapshot's.
C6_Rollover ==
  [][op' = "check" =>
       \A ty \in UsageTypes :
         (LastResetAt(ty) \in ResetAts /\ ResetAtOf(checkedNow', ty) # LastResetAt(ty)) =>
           /\ ty \in rolledNow'
           /\ \A k \in triggeredAlerts' : k[1] = ty => k \in firedNow'
           /\ \A k \in EnabledKeysOf(thresholds) :
                (k[1] = ty /\ PercentOf(checkedNow', k) >= k[2] /\ CooldownOver(k, now))
                  => k \in firedNow'
           /\ LastResetAt(ty)' = ResetAtOf(checkedNow', ty)
           /\ StoreLastResetAt(ty)' = ResetAtOf(checkedNow', ty)]_vars

\* C6 witness: an evaluation saw the weekly resetAt change and cleared the
\* flag of weekly-75 although the weekly percentage is still 80.
C6_Witness ==
  /\ op = "check"
  /\ "weekly" \in rolledNow
  /\ <<"weekly", 75>> \in clearedNow
  /\ checkedNow.weeklyUsage.percentUsed = 80
  /\ <<"weekly", 75>> \notin triggeredAlerts

\* C7: an evaluation fires every enabled threshold at or below the current
\* percentage that is not triggered and not in cooldown, and fires nothing
\* above the current percentage; from the empty state with session thresholds
\* 50, 75, 90 and a session percentage of 76 exactly 50 and 75 fire.
C7_FireLadder ==
  [][op' = "check" =>
       /\ \A k \in EnabledKeysOf(thresholds) :
            (PercentOf(checkedNow', k) >= k[2] /\ k \notin triggeredAlerts /\ CooldownOver(k, now))
              => k \in firedNow'
       /\ \A k \in firedNow' :
            k \in EnabledKeysOf(thresholds) /\ PercentOf(checkedNow', k) >= k[2]
       /\ ( /\ triggeredAlerts = {}
            /\ \A k \in AllKeys : firedAt[k] = NoTime
            /\ EnabledKeysOf(thresholds) = {<<"session", 50>>, <<"session", 75>>, <<"session", 90>>}
            /\ checkedNow'.sessionUsage.percentUsed = 76 )
            => firedNow' = {<<"session", 50>>, <<"session", 75>>}]_vars

\* C7 witness: the first firing evaluation, at 76, fired 50 and 75 and not 90.
C7_Witness ==
  /\ op = "check"
  /\ checkedNow.sessionUsage.percentUsed = 76
  /\ firedNow = {<<"session", 50>>, <<"session", 75>>}
  /\ <<"session", 90>> \in EnabledKeysOf(thresholds)
  /\ firedAt[<<"session", 90>>] = NoTime
  /\ now = 0

\* C4 (as amended): in the sequence 80 -> 72 -> 80 without rollover, after
\* session-75 fired at the first 80, the triggered flag stays set at 72
\* (72 is not below 75 - 5) and the second 80 fires nothing for the key,
\* also when the cooldown has elapsed.
C4_Hysteresis ==
  /\ (scen = 2 => ScenKey \in triggeredAlerts)
  /\ (scen = 3 => ScenKey \in triggeredAlerts /\ ScenKey \notin firedNow)

\* C4 as claimed: the flag is cleared at 72 and the key fires again at the
\* second 80 once the cooldown has elapsed.
C4_Hysteresis_Claimed ==
  /\ (scen = 2 => ScenKey \notin triggeredAlerts)
  /\ ((scen = 3 /\ op = "check" /\ ScenKey \notin firedNow)
        => now - firedAt[ScenKey] < NOTIFICATION_COOLDOWN_H)

\* C4 witness: the second 80 was evaluated with the cooldown of the first
\* firing elapsed.
C4_Witness ==
  /\ scen = 3
  /\ op = "check"
  /\ firedAt[ScenKey] # NoTime
  /\ now - firedAt[ScenKey] >= NOTIFICATION_COOLDOWN_H

\* C5 (as amended): a second call with the same snapshot fires no threshold
\* that is already triggered, clears no flag and changes no stored resetAt;
\* it changes AlertState only by firing thresholds that were not triggered
\* and whose cooldown, which blocked them before, has elapsed.
C5_Idempotence ==
  [][repeatNow' =>
       /\ firedNow' \cap triggeredAlerts = {}
       /\ triggeredAlerts' = triggeredAlerts \cup firedNow'
       /\ lastSessionResetAt' = lastSessionResetAt
       /\ lastWeeklyResetAt' = lastWeeklyResetAt
       /\ \A k \in AllKeys \ firedNow' :
            storeLastNotificationTimes'[k] = storeLastNotificationTimes[k]
       /\ \A k \in firedNow' :
            firedAt[k] # NoTime /\ now' - firedAt[k] >= NOTIFICATION_COOLDOWN_H]_vars

\* C5 as claimed: the second call fires no triggered threshold and leaves
\* AlertState unchanged.
C5_Idempotence_Claimed ==
  [][repeatNow' =>
       /\ firedNow' \cap triggeredAlerts = {}
       /\ AlertState' = AlertState]_vars

\* C5 witness: a repeated call found a triggered threshold at or above its
\* percentage, out of cooldown, and did not fire it.
C5_Witness ==
  /\ repeatNow
  /\ \E k \in triggeredAlerts \ firedNow :
       /\ PercentOf(checkedNow, k) >= k[2]
       /\ now - firedAt[k] >= NOTIFICATION_COOLDOWN_H


\* C22: after every checkThresholds call the persisted alert state equals
\* the state in memory: the triggered keys and the last reset time of each
\* usage type (the last notification times live in the store only), so that
\* a restart reloads the state the running process had
C22_PersistedAfterCheck ==
  op = "check" =>
    /\ storeTriggeredAlerts = triggeredAlerts
    /\ \A ty \in UsageTypes : StoreLastResetAt(ty) = LastResetAt(ty)

\* C23: after clearAllAlerts() (logout) no key is triggered, no key has a
\* last notification time and both last reset times are null, in memory and
\* in the store
C23_LogoutClearsAll ==
  op = "clear" =>
    /\ triggeredAlerts = {}
    /\ storeTriggeredAlerts = {}
    /\ \A k \in AllKeys : getLastNotificationTime(storeLastNotificationTimes, k) = NoTime
    /\ \A ty \in UsageTypes : LastResetAt(ty) = Null /\ StoreLastResetAt(ty) = Null


\* the time store.getLastNotificationTime has for key
LastFiredAt(key) == getLastNotificationTime(storeLastNotificationTimes, key)

\* C29: when the key of an enabled threshold is not triggered and at least
\* the cooldown has passed since its last notification time, the next
\* evaluation that finds the percentage at or above the threshold fires it,
\* marks it triggered (in memory and in the store) and records now as its
\* last notification time.
C29_RefireAfterCooldown ==
  [][op' = "check" =>
       \A k \in EnabledKeysOf(thresholds) :
         ( /\ k \notin triggeredAlerts
           /\ LastFiredAt(k) # NoTime
           /\ now - LastFiredAt(k) >= NOTIFICATION_COOLDOWN_H
           /\ PercentOf(checkedNow', k) >= k[2] )
           => /\ k \in firedNow'
              /\ k \in triggeredAlerts'
              /\ k \in storeTriggeredAlerts'
              /\ LastFiredAt(k)' = now']_vars

\* C29 witness: session-75, fired at hour 0, fired again at hour 4 or later
\* and is triggered with the new time recorded.
C29_Witness ==
  /\ op = "check"
  /\ <<"session", 75>> \in refiredNow
  /\ <<"session", 75>> \in firedNow
  /\ <<"session", 75>> \in triggeredAlerts
  /\ now >= NOTIFICATION_COOLDOWN_H
  /\ LastFiredAt(<<"session", 75>>) = now

\* C30: an evaluation without rollover of the type clears the triggered flag
\* of an enabled threshold exactly when the percentage is below
\* percentage - 5, inside and outside the cooldown of the key: below it the
\* flag is clear afterwards and the last notification time is as before; at
\* percentage - 5 or above the flag is as it was unless the key fired.
C30_StrictHysteresis ==
  [][op' = "check" =>
       \A k \in EnabledKeysOf(thresholds) :
         IF PercentOf(checkedNow', k) < k[2] - HYSTERESIS
           THEN /\ k \notin triggeredAlerts'
                /\ k \notin firedNow'
                /\ LastFiredAt(k)' = LastFiredAt(k)
           ELSE k[1] \notin rolledNow' =>
                  (k \in triggeredAlerts' <=> (k \in triggeredAlerts \/ k \in firedNow'))]_vars

\* C30 witness: an evaluation at 45 cleared the flag of session-75 inside
\* the cooldown of its firing, kept the flag of session-50 (45 = 50 - 5) and
\* left the last notification time of session-75 as it was.
C30_Witness ==
  /\ op = "check"
  /\ checkedNow.sessionUsage.percentUsed = 45
  /\ droppedNow = {<<"session", 75>>}
  /\ rolledNow = {}
  /\ <<"session", 50>> \in triggeredAlerts
  /\ <<"session", 75>> \notin triggeredAlerts
  /\ LastFiredAt(<<"session", 75>>) = firedAt[<<"session", 75>>]
  /\ now - LastFiredAt(<<"session", 75>>) < NOTIFICATION_COOLDOWN_H



\* the usage type that is not ty
OtherType(ty) == CHOOSE o \in UsageTypes : o # ty

C24_CredentialLifecycle ==
  [][/\ (sessionKey' # sessionKey /\ sessionKey' # Null) =>
          \/ credStep' = "captured"
          \/ credStep' = "login" /\ loginOp' = "captured" /\ sessionKey' = captured'
     /\ (sessionKey # Null /\ sessionKey' = Null) =>
          \/ credStep' = "logout"
          \/ credStep' = "validate" /\ ProbeAnswered /\ LastStatus(probeLog') = 401
     /\ (credStep' = "validate" /\ ProbeAnswered) =>
          IF LastStatus(probeLog') = 401 THEN sessionKey' = Null
          ELSE sessionKey' = sessionKey
     /\ credStep' = "poll" => sessionKey' = sessionKey]_vars

\* C24 witness: a poll cycle ended on a 401 and the session key is still
\* stored.
C24_Witness ==
  /\ credStep = "poll"
  /\ stepOutcome = "unauthorized"
  /\ emitted = <<"auth:expired">>
  /\ sessionKey = "k1"


\* ================================================== session teardown claims
\* C36: whenever no session key is stored (after logout or after a probe of
\* checkSession was answered 401), the poller is stopped in the end (the
\* running flag is off and no timer is armed), unless a login capture stores
\* a key before.
C36_StoppedAfterClear ==
  (sessionKey = Null) ~> (sessionKey # Null \/ (~isPolling /\ liveTimers = 0))

====
